---- MODULE Spec2Model ----
(***************************************************************************)
(* Model of app.py, the Streamlit stock watchlist dashboard.               *)
(*                                                                         *)
(* One run of the script (a "render") is modelled in two steps: the        *)
(* sidebar (lines 20-57: the add handler and the remove handler) and the   *)
(* main dashboard area (lines 93-198: the cached fetch_stock_data call and *)
(* the presentation shaping).  Streamlit reruns the script once per widget *)
(* interaction, so at most one of the two buttons is pressed in a run.     *)
(*                                                                         *)
(* Strings the code transforms (ticker symbols, formatted cells) are       *)
(* sequences of one-character strings, so that upper(), strip() and the    *)
(* f-string formats are computed rather than assumed.                      *)
(***************************************************************************)
EXTENDS Integers, Sequences, FiniteSets, TLC

VARIABLES
    watchlist,  \* st.session_state.watchlist: a sequence of symbols
    cache,      \* st.cache_data store of fetch_stock_data: key -> [value, stored]
    now,        \* the cache's clock, in seconds
    pc,         \* position of the script: "idle" (between runs) or "main"
    market,     \* how the upstream answers the pipeline during this session
    nadds,      \* presses of "Add Ticker" so far
    nremoves,   \* presses of "Remove Ticker" so far
    nruns,      \* timed runs / direct calls so far
    sidebar,    \* what the sidebar part of the current run did
    main,       \* what the main area of the last run (or harness call) did
    computed    \* ghost: key -> the result of the latest execution under that key

vars == <<watchlist, cache, now, pc, market, nadds, nremoves, nruns, sidebar, main, computed>>

----------------------------------------------------------------------------
(* Bounds of the model *)

MaxInputLen == 2      \* longest text typed into the "Add a new ticker" box
MaxAdds == 1          \* presses of "Add Ticker" explored in a session
MaxRemoves == 1       \* presses of "Remove Ticker" explored in a session
MaxRenders == 3       \* timed script runs explored
MaxSeriesLen == 5     \* longest price series returned by history()
MaxTickers == 3       \* longest ticker list handed to fetch_stock_data directly
MaxCalls == 2         \* direct calls of the cached function explored
MaxNow == 10800       \* the clock stops advancing here

----------------------------------------------------------------------------
(* Strings *)

Range(s) == {s[i] : i \in 1..Len(s)}

\* The characters a user types in this model: a lower-case letter and a
\* blank.
Alphabet == {"a", " "}

IsSpace(c) == c = " "

\* str.upper(), character by character (line 29)
UpperChar(c) ==
    CASE c = "a" -> "A"
      [] c = "m" -> "M"
      [] c = "s" -> "S"
      [] c = "f" -> "F"
      [] c = "t" -> "T"
      [] OTHER -> c

Upper(s) == [i \in 1..Len(s) |-> UpperChar(s[i])]

\* str.strip(): drop leading and trailing whitespace (line 29)
RECURSIVE LStrip(_)
LStrip(s) ==
    IF s # <<>> /\ IsSpace(Head(s)) THEN LStrip(Tail(s)) ELSE s

RECURSIVE RStrip(_)
RStrip(s) ==
    IF s # <<>> /\ IsSpace(s[Len(s)]) THEN RStrip(SubSeq(s, 1, Len(s) - 1)) ELSE s

Strip(s) == RStrip(LStrip(s))

\* new_ticker.upper().strip() (line 29)
Normalize(raw) == Strip(Upper(raw))

RECURSIVE StringsUpTo(_)
StringsUpTo(n) ==
    IF n = 0 THEN {<<>>}
    ELSE LET shorter == StringsUpTo(n - 1)
         IN  shorter \cup {Append(s, c) : s \in shorter, c \in Alphabet}

\* What the text box can hold when the script runs: the short strings over
\* the alphabet, and a seed symbol typed in lower case, bare and padded.
TextInputs ==
    StringsUpTo(MaxInputLen)
        \cup {<<"m", "s", "f", "t">>, <<" ", "m", "s", "f", "t", " ">>}

----------------------------------------------------------------------------
(* Values of the upstream metadata mapping (yf.Ticker(...).info) *)

Absent == [t |-> "absent", n |-> 0, s |-> <<>>]   \* key not in the mapping
None == [t |-> "none", n |-> 0, s |-> <<>>]       \* key present, value None
Num(k) == [t |-> "num", n |-> k, s |-> <<>>]
Str(x) == [t |-> "str", n |-> 0, s |-> x]

InfoFields == {"shortName", "sector", "industry", "regularMarketPrice", "volume", "marketCap"}

\* 'field' in info
HasKey(info, f) == info[f].t # "absent"

\* info.get(field, default)
Get(info, f, default) == IF HasKey(info, f) THEN info[f] ELSE default

AAPL == <<"A", "A", "P", "L">>
MSFT == <<"M", "S", "F", "T">>
GOOGL == <<"G", "O", "O", "G", "L">>
AMZN == <<"A", "M", "Z", "N">>
META == <<"M", "E", "T", "A">>

\* the default seed (line 17)
SeedWatchlist == <<AAPL, MSFT, GOOGL, AMZN, META>>

NA == <<"N", "/", "A">>
AppleName == <<"A", "p", "p", "l", "e">>
TechSector == <<"T", "e", "c", "h">>
HardwareIndustry == <<"H", "W">>

FullInfo ==
    [shortName |-> Str(AppleName), sector |-> Str(TechSector),
     industry |-> Str(HardwareIndustry), regularMarketPrice |-> Num(105),
     volume |-> Num(1000000), marketCap |-> Num(1500000000)]

EmptyInfo == [f \in InfoFields |-> Absent]

----------------------------------------------------------------------------
(* Sidebar: add handler (lines 27-43) and remove handler (lines 47-53) *)

\* Outcomes of yf.Ticker(new_ticker).info at line 33: the lookup raises, or
\* it returns a mapping whose regularMarketPrice is absent, None or a number.
ValidationOutcomes ==
    { [raises |-> TRUE, info |-> EmptyInfo],
      [raises |-> FALSE, info |-> EmptyInfo],
      [raises |-> FALSE, info |-> [EmptyInfo EXCEPT !.regularMarketPrice = None]],
      [raises |-> FALSE, info |-> FullInfo] }

\* What the lookup of line 33 did, as the handler sees it
LookupKind(v) == IF v.raises THEN "raises" ELSE v.info["regularMarketPrice"].t

\* A slip in line 34: the key is tested, its value is not
ValidatedKeyOnly(info) == HasKey(info, "regularMarketPrice")

\* line 34
Validated(info) ==
    HasKey(info, "regularMarketPrice") /\ info["regularMarketPrice"] # None

\* The bare "except:" of line 42 catches whatever the try block raises.
AddHandlerCatches(raised) == TRUE

\* A slip in lines 35-36: the membership test is left out
AddHandlerNoDupCheck(wl, raw, v) ==
    LET new_ticker == Strip(Upper(raw)) IN
    IF raw = <<>>
    THEN [watchlist |-> wl, msg |-> "none", ticker |-> raw, escaped |-> FALSE]
    ELSE IF v.raises \/ ~HasKey(v.info, "regularMarketPrice")
                     \/ v.info["regularMarketPrice"] = None
    THEN [watchlist |-> wl, msg |-> "error", ticker |-> new_ticker, escaped |-> FALSE]
    ELSE [watchlist |-> Append(wl, new_ticker), msg |-> "success",
          ticker |-> new_ticker, escaped |-> FALSE]

\* Lines 27-43 with the button pressed: the new watchlist, the sidebar
\* message and whether an exception left the handler.
AddHandler(wl, raw, v) ==
    LET new_ticker == Normalize(raw) IN
    IF raw = <<>>
    THEN [watchlist |-> wl, msg |-> "none", ticker |-> raw, escaped |-> FALSE]
    ELSE IF v.raises
    THEN [watchlist |-> wl, msg |-> "error", ticker |-> new_ticker,
          escaped |-> ~AddHandlerCatches(v.raises)]
    ELSE IF Validated(v.info)
    THEN IF new_ticker \notin Range(wl)
         THEN [watchlist |-> Append(wl, new_ticker), msg |-> "success",
               ticker |-> new_ticker, escaped |-> FALSE]
         ELSE [watchlist |-> wl, msg |-> "warning", ticker |-> new_ticker,
               escaped |-> FALSE]
    ELSE [watchlist |-> wl, msg |-> "error", ticker |-> new_ticker, escaped |-> FALSE]

\* A slip in line 52: pop() in place of remove(x)
ListRemovePop(wl, x) == SubSeq(wl, 1, Len(wl) - 1)

\* list.remove(x): delete the first element equal to x (line 52)
RECURSIVE ListRemove(_, _)
ListRemove(wl, x) ==
    IF wl = <<>> THEN <<>>
    ELSE IF Head(wl) = x THEN Tail(wl)
    ELSE <<Head(wl)>> \o ListRemove(Tail(wl), x)

\* options of the selectbox at line 48
RemoveOptions(wl) == Range(wl)

----------------------------------------------------------------------------
(* Numbers: the floats of lines 81-82 as exact fractions num/den, den > 0 *)

RECURSIVE Gcd(_, _)
Gcd(a, b) == IF b = 0 THEN a ELSE Gcd(b, a % b)

Abs(a) == IF a < 0 THEN -a ELSE a

Reduce(n, d) ==
    LET g == Gcd(Abs(n), Abs(d))
        sgn == IF d < 0 THEN -1 ELSE 1
    IN  [num |-> sgn * (n \div g), den |-> sgn * (d \div g)]

Zero == [num |-> 0, den |-> 1]
RatDiv(a, b) == Reduce(a, b)                         \* a / b
RatSubInt(r, k) == Reduce(r.num - k * r.den, r.den)  \* r - k
RatMulInt(r, k) == Reduce(r.num * k, r.den)          \* r * k

\* hist['Close'].iloc[-k], k >= 1
ILocNeg(closes, k) == closes[Len(closes) - k + 1]

\* ((Close.iloc[-1] / Close.iloc[-2]) - 1) * 100 if len(hist) >= 2 else 0  (line 81)
Change1d(closes) ==
    IF Len(closes) >= 2
    THEN RatMulInt(RatSubInt(RatDiv(ILocNeg(closes, 1), ILocNeg(closes, 2)), 1), 100)
    ELSE Zero

\* A slip in line 82: three positions back in place of four
Change3dThreeBack(closes) ==
    IF Len(closes) >= 3
    THEN RatMulInt(RatSubInt(RatDiv(ILocNeg(closes, 1), ILocNeg(closes, 3)), 1), 100)
    ELSE Zero

\* ((Close.iloc[-1] / Close.iloc[-4]) - 1) * 100 if len(hist) >= 4 else 0  (line 82)
Change3d(closes) ==
    IF Len(closes) >= 4
    THEN RatMulInt(RatSubInt(RatDiv(ILocNeg(closes, 1), ILocNeg(closes, 4)), 1), 100)
    ELSE Zero

----------------------------------------------------------------------------
(* fetch_stock_data (lines 61-91) *)

\* A dict as the sequence of its items in insertion order.
DictKeys(d) == {d[i].ticker : i \in 1..Len(d)}

DictGet(d, k) == (CHOOSE i \in 1..Len(d) : d[i].ticker = k)

\* d[k] = v: an existing key keeps its place
DictSet(d, k, v) ==
    IF k \in DictKeys(d)
    THEN [i \in 1..Len(d) |-> IF d[i].ticker = k THEN [ticker |-> k, snap |-> v] ELSE d[i]]
    ELSE Append(d, [ticker |-> k, snap |-> v])

\* lines 76-85
Snapshot(ticker, closes, info) ==
    [name |-> Get(info, "shortName", Str(ticker)),
     sector |-> Get(info, "sector", Str(NA)),
     industry |-> Get(info, "industry", Str(NA)),
     price |-> Get(info, "regularMarketPrice", Num(0)),
     change_1d |-> Change1d(closes),
     change_3d |-> Change3d(closes),
     volume |-> Get(info, "volume", Num(0)),
     market_cap |-> Get(info, "marketCap", Num(0))]

\* A slip in line 88: a handler too narrow for what the lookups raise
FetchCatchesNothing(raised) == FALSE

\* "except Exception" (line 88) catches the errors the lookups raise.
FetchCatches(raised) == TRUE

\* What the upstream does for one ticker of one execution:
\*   hist = "raise": yf.Ticker(...) or history() raises; otherwise closes is
\*   the Close column of the returned frame (empty: hist.empty);
\*   inforaises: stock.info raises; otherwise info is the mapping.
HistRaises == [hist |-> "raise", closes |-> <<>>, inforaises |-> FALSE, info |-> EmptyInfo]
EmptySeries == [hist |-> "ok", closes |-> <<>>, inforaises |-> FALSE, info |-> EmptyInfo]
InfoRaises(closes) == [hist |-> "ok", closes |-> closes, inforaises |-> TRUE, info |-> EmptyInfo]
Ok(closes, info) == [hist |-> "ok", closes |-> closes, inforaises |-> FALSE, info |-> info]

\* One pass of the loop body (lines 66-89) for tickers[i]: an error is raised
\* by the history lookup, or, the frame not being empty, by anything in
\* lines 73-85 (the metadata lookup, a missing Close column)
Raises(o) == o.hist = "raise" \/ (o.closes # <<>> /\ o.inforaises)

RECURSIVE FetchLoop(_, _, _, _)
FetchLoop(tickers, up, i, acc) ==
    IF i > Len(tickers) THEN acc
    ELSE LET ticker == tickers[i]
             o == up[i]
             tried == [acc EXCEPT !.attempts = Append(@, ticker)]
         IN  IF Raises(o)
             THEN IF FetchCatches(TRUE)
                  THEN FetchLoop(tickers, up, i + 1,
                                 [tried EXCEPT !.warnings = Append(@, <<"error", ticker>>)])
                  ELSE [tried EXCEPT !.escaped = TRUE, !.data = <<>>]
             ELSE IF o.closes # <<>>
             THEN FetchLoop(tickers, up, i + 1,
                            [tried EXCEPT !.data = DictSet(@, ticker,
                                                 Snapshot(ticker, o.closes, o.info))])
             ELSE FetchLoop(tickers, up, i + 1,
                            [tried EXCEPT !.warnings = Append(@, <<"nodata", ticker>>)])

FetchStockData(tickers, period, up) ==
    FetchLoop(tickers, up, 1,
              [data |-> <<>>, attempts |-> <<>>, warnings |-> <<>>, escaped |-> FALSE])

----------------------------------------------------------------------------
(* st.cache_data(ttl=3600) around fetch_stock_data (line 60) *)

TTL == 3600

\* A slip in the key: the period left out
KeyTickersOnly(tickers, period) == <<tickers, "5d">>

\* The cache key is built from the argument values: the tickers in order,
\* and the period.
Key(tickers, period) == <<tickers, period>>

\* A slip in the expiry: an entry served whatever its age
FreshForever(c, key, t) == key \in DOMAIN c

\* an entry is served while its age is below the ttl
Fresh(c, key, t) == key \in DOMAIN c /\ t - c[key].stored < TTL

CacheStore(c, key, value, t) ==
    [k \in DOMAIN c \cup {key} |->
        IF k = key THEN [value |-> value, stored |-> t] ELSE c[k]]

\* One call of the decorated function at time t
CachedFetch(c, tickers, period, up, t) ==
    LET key == Key(tickers, period) IN
    IF Fresh(c, key, t)
    THEN [ret |-> c[key].value, hit |-> TRUE, attempts |-> <<>>, warnings |-> <<>>,
          escaped |-> FALSE, cache |-> c]
    ELSE LET r == FetchStockData(tickers, period, up) IN
         [ret |-> r.data, hit |-> FALSE, attempts |-> r.attempts,
          warnings |-> r.warnings, escaped |-> r.escaped,
          cache |-> IF r.escaped THEN c ELSE CacheStore(c, key, r.data, t)]

----------------------------------------------------------------------------
(* Presentation shaping (lines 101-112) *)

DigitChars == <<"0", "1", "2", "3", "4", "5", "6", "7", "8", "9">>

RECURSIVE Digits(_)
Digits(n) ==
    IF n < 10 THEN <<DigitChars[n + 1]>>
    ELSE Digits(n \div 10) \o <<DigitChars[(n % 10) + 1]>>

Signed(n, body) == IF n < 0 THEN <<"-">> \o body ELSE body

\* f"${price:.2f}" for an int
FormatPrice(n) == <<"$">> \o Signed(n, Digits(Abs(n))) \o <<".", "0", "0">>

RECURSIVE GroupThousands(_)
GroupThousands(ds) ==
    IF Len(ds) <= 3 THEN ds
    ELSE GroupThousands(SubSeq(ds, 1, Len(ds) - 3)) \o <<",">>
             \o SubSeq(ds, Len(ds) - 2, Len(ds))

\* f"{volume:,}" for an int
FormatVolume(n) == Signed(n, GroupThousands(Digits(Abs(n))))

\* n / d rounded to the nearest integer, ties to even (n >= 0, d > 0)
RoundDiv(n, d) ==
    LET q == n \div d
        r == 2 * (n % d)
    IN  IF r > d \/ (r = d /\ q % 2 = 1) THEN q + 1 ELSE q

TenMillion == 10000000

\* f"${market_cap/1e9:.2f}B" for a positive int: hundredths of a billion
FormatBillions(n) ==
    LET h == RoundDiv(n, TenMillion) IN
    <<"$">> \o Digits(h \div 100) \o <<".">>
        \o <<DigitChars[((h \div 10) % 10) + 1], DigitChars[(h % 10) + 1]>> \o <<"B">>

\* The formats of lines 106, 110 and 111 raise TypeError/ValueError on
\* anything that is not a number (None in particular).
RowRaises(snap) ==
    snap.price.t # "num" \/ snap.volume.t # "num" \/ snap.market_cap.t # "num"

Row(item) ==
    [Ticker |-> item.ticker,
     Name |-> item.snap.name,
     Price |-> FormatPrice(item.snap.price.n),
     Return1D |-> item.snap.change_1d,
     Return3D |-> item.snap.change_3d,
     Sector |-> item.snap.sector,
     Volume |-> FormatVolume(item.snap.volume.n),
     MarketCap |-> IF item.snap.market_cap.n > 0
                   THEN FormatBillions(item.snap.market_cap.n) ELSE NA]

\* The loop of lines 102-112: the rows, or the first error
Shape(data) ==
    IF \E i \in 1..Len(data) : RowRaises(data[i].snap)
    THEN [raised |-> TRUE, rows |-> <<>>]
    ELSE [raised |-> FALSE, rows |-> [i \in 1..Len(data) |-> Row(data[i])]]

----------------------------------------------------------------------------
(* Main dashboard area (lines 93-198) *)

\* What the main area shows for a watchlist at time t, with the upstream
\* behaving as up if the pipeline executes.
MainArea(wl, c, up, t) ==
    IF wl # <<>>
    THEN LET r == CachedFetch(c, wl, "5d", up, t)
             stock_data == r.ret
             shaped == Shape(stock_data)
         IN  [out |-> IF r.escaped THEN "exception"
                      ELSE IF stock_data # <<>>
                      THEN IF shaped.raised THEN "exception" ELSE "table"
                      ELSE "error",
              invoked |-> TRUE, hit |-> r.hit, escaped |-> r.escaped,
              attempts |-> r.attempts,
              data |-> stock_data,
              rows |-> IF r.escaped THEN <<>> ELSE shaped.rows,
              tickers |-> wl, period |-> "5d",
              up |-> IF r.hit THEN <<>> ELSE up,
              cache |-> r.cache]
    ELSE [out |-> "info", invoked |-> FALSE, hit |-> FALSE, escaped |-> FALSE,
          attempts |-> <<>>,
          data |-> <<>>, rows |-> <<>>, tickers |-> wl, period |-> "5d",
          up |-> <<>>, cache |-> c]

----------------------------------------------------------------------------
(* Upstream behaviours explored *)

SpecSeries == <<100, 102, 101, 103, 105>>
NullPriceInfo == [FullInfo EXCEPT !.regularMarketPrice = None]

\* How the upstream answers the pipeline for a ticker during one session:
\* every ticker has data, none has, the lookups of some symbols fail, one
\* symbol's metadata carries a null price, or the metadata carries no field.
Markets == {"up", "down", "partial", "nullprice", "bare"}

MarketOutcome(m, ticker) ==
    CASE m = "up" -> Ok(SpecSeries, FullInfo)
      [] m = "down" -> EmptySeries
      [] m = "partial" ->
            IF ticker \in {AAPL, <<"A">>} THEN HistRaises
            ELSE IF ticker = META THEN InfoRaises(SpecSeries)
            ELSE Ok(SpecSeries, FullInfo)
      [] m = "nullprice" ->
            IF ticker = MSFT THEN Ok(SpecSeries, NullPriceInfo)
            ELSE Ok(SpecSeries, FullInfo)
      [] OTHER -> Ok(<<100>>, EmptyInfo)

MarketFor(m, wl) == [i \in 1..Len(wl) |-> MarketOutcome(m, wl[i])]

\* Behaviours of the upstream during one timed run, for n tickers: the same
\* for all tickers, or one ticker (the first or the last) differing.
RunOutcomes ==
    { Ok(SpecSeries, FullInfo), EmptySeries, HistRaises, InfoRaises(SpecSeries) }

RunBases == { Ok(SpecSeries, FullInfo), EmptySeries }

RunWorlds(n) ==
    { [i \in 1..n |-> IF i = k THEN e ELSE b] :
        b \in RunBases, e \in RunOutcomes, k \in {1, n} }

----------------------------------------------------------------------------
(* The dashboard *)

NoSidebar ==
    [button |-> "none", typed |-> FALSE, lookup |-> "none", ticker |-> <<>>,
     msg |-> "none", before |-> <<>>, escaped |-> FALSE]

NoMain ==
    [out |-> "none", invoked |-> FALSE, hit |-> FALSE, escaped |-> FALSE,
     attempts |-> <<>>, data |-> <<>>, rows |-> <<>>, tickers |-> <<>>,
     period |-> "5d", up |-> <<>>]

Start ==
    /\ watchlist = SeedWatchlist
    /\ cache = <<>>
    /\ now = 0
    /\ pc = "idle"
    /\ nadds = 0
    /\ nremoves = 0
    /\ nruns = 0
    /\ sidebar = NoSidebar
    /\ main = NoMain
    /\ computed = <<>>

Init == Start /\ market \in Markets

\* A run in which "Add Ticker" was pressed
AddTicker(raw, v) ==
    /\ pc = "idle"
    /\ nadds < MaxAdds
    /\ nadds' = nadds + 1
    /\ \E r \in {AddHandler(watchlist, raw, v)} :
        /\ watchlist' = r.watchlist
        /\ sidebar' = [button |-> "add", typed |-> raw # <<>>,
                       lookup |-> IF raw = <<>> THEN "none" ELSE LookupKind(v),
                       ticker |-> r.ticker, msg |-> r.msg, before |-> watchlist,
                       escaped |-> r.escaped]
        /\ pc' = IF r.escaped THEN "idle" ELSE "main"
    /\ main' = NoMain
    /\ UNCHANGED <<cache, now, market, nremoves, nruns, computed>>

\* A run in which "Remove Ticker" was pressed; the button exists only while
\* the watchlist is non-empty (line 47)
RemoveTicker(ticker_to_remove) ==
    /\ pc = "idle"
    /\ nremoves < MaxRemoves
    /\ nremoves' = nremoves + 1
    /\ watchlist # <<>>
    /\ ticker_to_remove \in RemoveOptions(watchlist)
    /\ watchlist' = ListRemove(watchlist, ticker_to_remove)
    /\ sidebar' = [button |-> "remove", typed |-> FALSE, lookup |-> "none",
                   ticker |-> ticker_to_remove, msg |-> "removed",
                   before |-> watchlist, escaped |-> FALSE]
    /\ pc' = "main"
    /\ main' = NoMain
    /\ UNCHANGED <<cache, now, market, nadds, nruns, computed>>

\* A run triggered by any other interaction: no button pressed
Rerun ==
    /\ pc = "idle"
    /\ sidebar' = [NoSidebar EXCEPT !.before = watchlist]
    /\ pc' = "main"
    /\ main' = NoMain
    /\ UNCHANGED <<watchlist, cache, now, market, nadds, nremoves, nruns, computed>>

\* The ghost: the result of the latest execution under each key
Record(g, m) ==
    IF m.invoked /\ ~m.hit
    THEN [k \in DOMAIN g \cup {<<m.tickers, m.period>>} |->
            IF k = <<m.tickers, m.period>> THEN m.data ELSE g[k]]
    ELSE g

\* The rest of the run: the main area
Dashboard(up) ==
    /\ pc = "main"
    /\ \E m \in {MainArea(watchlist, cache, up, now)} :
        /\ main' = [f \in DOMAIN NoMain |-> m[f]]
        /\ cache' = m.cache
        /\ computed' = Record(computed, m)
    /\ pc' = "idle"
    /\ sidebar' = NoSidebar
    /\ UNCHANGED <<watchlist, now, market, nadds, nremoves, nruns>>

Next ==
    \/ \E raw \in TextInputs, v \in ValidationOutcomes : AddTicker(raw, v)
    \/ \E t \in RemoveOptions(watchlist) : RemoveTicker(t)
    \/ Rerun
    \/ Dashboard(MarketFor(market, watchlist))

\* A session of the dashboard within one cache window, the upstream
\* answering the pipeline the same way throughout.
Spec == Init /\ [][Next]_vars

----------------------------------------------------------------------------
(* Timed runs: the watchlist left alone, the clock advancing between runs, *)
(* the upstream free to answer differently at every execution              *)

ClockSteps == {TTL - 1, TTL}

Tick(dt) ==
    /\ pc = "idle"
    /\ now + dt <= MaxNow
    /\ now' = now + dt
    /\ UNCHANGED <<watchlist, cache, pc, market, nadds, nremoves, nruns, sidebar,
                   main, computed>>

\* The upstream is consulted only when the pipeline executes.
UpstreamFor(wl, c, t) ==
    IF wl = <<>> \/ Fresh(c, Key(wl, "5d"), t) THEN {<<>>} ELSE RunWorlds(Len(wl))

Refresh ==
    /\ pc = "idle"
    /\ nruns < MaxRenders
    /\ nruns' = nruns + 1
    /\ sidebar' = [NoSidebar EXCEPT !.before = watchlist]
    /\ pc' = "main"
    /\ main' = NoMain
    /\ UNCHANGED <<watchlist, cache, now, market, nadds, nremoves, computed>>

RefreshInit == Start /\ market = "up"

RefreshNext ==
    \/ Refresh
    \/ \E up \in UpstreamFor(watchlist, cache, now) : Dashboard(up)
    \/ \E dt \in ClockSteps : Tick(dt)

SpecRefresh == RefreshInit /\ [][RefreshNext]_vars

----------------------------------------------------------------------------
(* Direct calls of the cached function, with keys that differ in           *)
(* membership, order and period                                            *)

CallTickers == {<<AAPL, MSFT>>, <<MSFT, AAPL>>, <<AAPL>>}
CallPeriods == {"5d", "1mo"}
CallOutcomes == {Ok(SpecSeries, FullInfo), EmptySeries}

CallWorlds(c, tickers, period, t) ==
    IF Fresh(c, Key(tickers, period), t) THEN {<<>>}
    ELSE [1..Len(tickers) -> CallOutcomes]

Invoke(tickers, period, up) ==
    /\ pc = "idle"
    /\ nruns < MaxCalls
    /\ nruns' = nruns + 1
    /\ \E r \in {CachedFetch(cache, tickers, period, up, now)} :
        /\ main' = [NoMain EXCEPT !.invoked = TRUE, !.hit = r.hit,
                                 !.escaped = r.escaped, !.attempts = r.attempts,
                                 !.data = r.ret, !.tickers = tickers,
                                 !.period = period]
        /\ cache' = r.cache
        /\ computed' = Record(computed, main')
    /\ UNCHANGED <<watchlist, now, pc, market, nadds, nremoves, sidebar>>

CacheNext ==
    \/ \E tickers \in CallTickers, period \in CallPeriods :
         \E up \in CallWorlds(cache, tickers, period, now) : Invoke(tickers, period, up)
    \/ \E dt \in ClockSteps : Tick(dt)

SpecCache == RefreshInit /\ [][CacheNext]_vars

----------------------------------------------------------------------------
(* fetch_stock_data and the shaping on their own, over bounded inputs *)

RECURSIVE SeqsUpTo(_, _)
SeqsUpTo(S, n) ==
    IF n = 0 THEN {<<>>}
    ELSE LET shorter == SeqsUpTo(S, n - 1)
         IN  shorter \cup {Append(s, x) : s \in shorter, x \in S}

Closes == {100, 102, 105}

\* every mapping whose fields are each absent, None or a value
InfoVariants == [InfoFields -> {"absent", "none", "value"}]

InfoOf(variant) ==
    [f \in InfoFields |->
        CASE variant[f] = "absent" -> Absent
          [] variant[f] = "none" -> None
          [] OTHER -> FullInfo[f]]

ZeroCapInfo == [FullInfo EXCEPT !.marketCap = Num(0)]

\* one ticker, every series and every shape of metadata
RichOutcomes ==
    {Ok(c, FullInfo) : c \in SeqsUpTo(Closes, MaxSeriesLen) \ {<<>>}}
        \cup {Ok(<<100, 102>>, InfoOf(variant)) : variant \in InfoVariants}
        \cup {Ok(<<100, 102>>, ZeroCapInfo)}

\* several tickers, every combination of per-ticker outcomes
LeanOutcomes ==
    { Ok(SpecSeries, FullInfo), Ok(<<100>>, EmptyInfo), EmptySeries, HistRaises,
      InfoRaises(SpecSeries) }

FetchInputs ==
    {[tickers |-> <<AAPL>>, up |-> <<o>>] : o \in RichOutcomes}
        \cup UNION {{[tickers |-> ts, up |-> u] : u \in [1..Len(ts) -> LeanOutcomes]} :
                       ts \in SeqsUpTo({AAPL, MSFT}, MaxTickers) \ {<<>>}}

FetchInit ==
    /\ watchlist = SeedWatchlist
    /\ cache = <<>>
    /\ now = 0
    /\ pc = "call"
    /\ market = "up"
    /\ nadds = 0
    /\ nremoves = 0
    /\ nruns = 0
    /\ sidebar = NoSidebar
    /\ computed = <<>>
    /\ \E in \in FetchInputs :
         main = [NoMain EXCEPT !.tickers = in.tickers, !.up = in.up]

\* fetch_stock_data(tickers), undecorated
FetchCall ==
    /\ pc = "call"
    /\ \E r \in {FetchStockData(main.tickers, main.period, main.up)} :
        main' = [main EXCEPT !.invoked = TRUE, !.escaped = r.escaped,
                             !.attempts = r.attempts, !.data = r.data]
    /\ pc' = "fetched"
    /\ UNCHANGED <<watchlist, cache, now, market, nadds, nremoves, nruns, sidebar,
                   computed>>

\* lines 99-112 and 195-196 on the returned mapping
ShapeRows ==
    /\ pc = "fetched"
    /\ \E shaped \in {Shape(main.data)} :
        main' = [main EXCEPT
                   !.out = IF main.data = <<>> THEN "error"
                           ELSE IF shaped.raised THEN "exception" ELSE "table",
                   !.rows = shaped.rows]
    /\ pc' = "shown"
    /\ UNCHANGED <<watchlist, cache, now, market, nadds, nremoves, nruns, sidebar,
                   computed>>

FetchNext == FetchCall \/ ShapeRows

SpecFetch == FetchInit /\ [][FetchNext]_vars

----------------------------------------------------------------------------
(* Properties *)

NoDuplicates(wl) == \A i, j \in 1..Len(wl) : wl[i] = wl[j] => i = j

AddPressed == sidebar.button = "add" /\ sidebar.typed

\* C1: the watchlist never holds a symbol twice, and an add of a validated
\* symbol that is already present leaves the watchlist as it was (a warning).
C1_UniqueWatchlist ==
    /\ NoDuplicates(watchlist)
    /\ (AddPressed /\ sidebar.lookup = "num" /\ sidebar.ticker \in Range(sidebar.before))
          => (watchlist = sidebar.before /\ sidebar.msg = "warning")

C1_Witness ==
    /\ pc = "main" /\ AddPressed /\ sidebar.lookup = "num"
    /\ sidebar.ticker = MSFT /\ MSFT \in Range(sidebar.before)

\* C2: an add whose validation fails (the price field absent, null, or the
\* lookup raising) leaves the watchlist unchanged, shows the rejection, and
\* lets no exception leave the handler: the run goes on to the main area.
C2_FailedValidation ==
    (AddPressed /\ sidebar.lookup \in {"raises", "absent", "none"})
        => /\ watchlist = sidebar.before
           /\ sidebar.msg = "error"
           /\ ~sidebar.escaped
           /\ pc = "main"

C2_Witness ==
    /\ pc = "main" /\ AddPressed /\ sidebar.lookup = "raises" /\ sidebar.msg = "error"

C2_WitnessNull ==
    /\ pc = "main" /\ AddPressed /\ sidebar.lookup = "none" /\ sidebar.msg = "error"

LowerChars == {"a", "m", "s", "f", "t"}

TrimmedUpper(sym) ==
    /\ \A i \in 1..Len(sym) : sym[i] \notin LowerChars
    /\ sym # <<>> => (~IsSpace(sym[1]) /\ ~IsSpace(sym[Len(sym)]))

\* C3: a candidate that is empty after upper-casing and trimming is never
\* appended, whatever the upstream returns, so every watchlist entry is a
\* non-empty, trimmed, upper-case symbol.
C3_EmptyCandidateRejected ==
    /\ (AddPressed /\ sidebar.ticker = <<>>) => watchlist = sidebar.before
    /\ \A i \in 1..Len(watchlist) : watchlist[i] # <<>> /\ TrimmedUpper(watchlist[i])

\* C9: a remove deletes exactly the selected entry, which is one of the
\* watchlist's, and keeps the others in order; a successful add appends the
\* normalized symbol and keeps what was there; a run without a button
\* leaves the watchlist alone.
C9_Frame ==
    /\ sidebar.button = "remove" =>
          /\ sidebar.ticker \in Range(sidebar.before)
          /\ \E i \in 1..Len(sidebar.before) :
                /\ sidebar.before[i] = sidebar.ticker
                /\ watchlist = SubSeq(sidebar.before, 1, i - 1)
                                  \o SubSeq(sidebar.before, i + 1, Len(sidebar.before))
    /\ (sidebar.button = "add" /\ sidebar.msg = "success") =>
          /\ watchlist = sidebar.before \o <<sidebar.ticker>>
          /\ TrimmedUpper(sidebar.ticker)
    /\ (pc = "main" /\ sidebar.button = "none") => watchlist = sidebar.before

C9_Witness ==
    /\ pc = "main" /\ sidebar.button = "remove" /\ sidebar.ticker = GOOGL
    /\ watchlist = <<AAPL, MSFT, AMZN, META>>

C9_WitnessAdd ==
    /\ pc = "main" /\ sidebar.button = "add" /\ sidebar.msg = "success"
    /\ watchlist = Append(SeedWatchlist, <<"A">>)

\* C7: a finished run shows exactly one of three things, decided by the
\* watchlist after the sidebar: the empty-state prompt without invoking the
\* pipeline (empty watchlist), the batch-level error (empty result), or the
\* table and heatmap (non-empty result).
C7_ThreeOutcomes ==
    (pc = "idle" /\ main.out # "none") =>
        /\ watchlist = <<>> => (main.out = "info" /\ ~main.invoked)
        /\ (watchlist # <<>> /\ main.data = <<>>) => main.out = "error"
        /\ main.data # <<>> => main.out = "table"

\* what a ticker's pass of the loop must have done to be in the result
Good(o) == o.hist = "ok" /\ o.closes # <<>> /\ ~o.inforaises

Called == pc \in {"fetched", "shown"}

\* C4: the keys of the returned mapping are exactly the input tickers whose
\* series was non-empty and whose lookups raised nothing, and no exception
\* leaves fetch_stock_data.
C4_KeysAreTheGoodTickers ==
    Called =>
        /\ ~main.escaped
        /\ DictKeys(main.data)
              = {main.tickers[i] : i \in {j \in 1..Len(main.tickers) : Good(main.up[j])}}
        /\ DictKeys(main.data) \subseteq Range(main.tickers)

C4_Witness ==
    /\ Called /\ main.tickers = <<AAPL, MSFT>>
    /\ Good(main.up[1]) /\ main.up[2] = HistRaises
    /\ DictKeys(main.data) = {AAPL}

\* the pass whose snapshot the mapping holds for tickers[i]: the last good one
Decides(i) ==
    /\ Good(main.up[i])
    /\ \A j \in (i + 1)..Len(main.tickers) :
          main.tickers[j] = main.tickers[i] => ~Good(main.up[j])

SnapOf(i) == main.data[DictGet(main.data, main.tickers[i])].snap

\* r = (last / earlier - 1) * 100, as an equation between fractions
IsPercentChange(r, last, earlier) ==
    r.den > 0 /\ r.num * earlier = (last - earlier) * 100 * r.den

\* C5: change_1d is 0 below 2 points and (close[-1]/close[-2] - 1)*100
\* otherwise; change_3d is 0 below 4 points and (close[-1]/close[-4] - 1)*100
\* otherwise.
C5_Changes ==
    Called =>
        \A i \in 1..Len(main.tickers) :
            Decides(i) =>
                LET c == main.up[i].closes
                    n == Len(c)
                    snap == SnapOf(i)
                IN  /\ IF n < 2 THEN snap.change_1d = Zero
                       ELSE IsPercentChange(snap.change_1d, c[n], c[n - 1])
                    /\ IF n < 4 THEN snap.change_3d = Zero
                       ELSE IsPercentChange(snap.change_3d, c[n], c[n - 3])

C5_Witness ==
    /\ Called /\ main.tickers = <<AAPL>> /\ Len(main.data) = 1
    /\ main.up[1].closes = <<100, 102, 105, 100, 105>>
    /\ main.data[1].snap.change_1d = [num |-> 5, den |-> 1]
    /\ main.data[1].snap.change_3d = [num |-> 50, den |-> 17]

C5_WitnessShort ==
    /\ Called /\ main.tickers = <<AAPL>> /\ Len(main.data) = 1
    /\ Len(main.up[1].closes) = 3
    /\ main.data[1].snap.change_1d # Zero
    /\ main.data[1].snap.change_3d = Zero

Unknown(v) == v = Absent \/ v = None

\* C8: a metadata field missing from the upstream response takes its default
\* in the snapshot (name: the ticker; sector, industry: 'N/A'; price, volume,
\* market cap: 0), and the shaping yields a row for every snapshot, with
\* Market Cap 'N/A' when the market cap is zero or unknown.
C8_DefaultsAndRows ==
    pc = "shown" =>
        /\ \A i \in 1..Len(main.tickers) :
              Decides(i) =>
                LET info == main.up[i].info
                    snap == SnapOf(i)
                IN  /\ ~HasKey(info, "shortName") => snap.name = Str(main.tickers[i])
                    /\ ~HasKey(info, "sector") => snap.sector = Str(NA)
                    /\ ~HasKey(info, "industry") => snap.industry = Str(NA)
                    /\ ~HasKey(info, "regularMarketPrice") => snap.price = Num(0)
                    /\ ~HasKey(info, "volume") => snap.volume = Num(0)
                    /\ ~HasKey(info, "marketCap") => snap.market_cap = Num(0)
        /\ Len(main.rows) = Len(main.data)
        /\ \A k \in 1..Len(main.data) :
              /\ main.rows[k].Ticker = main.data[k].ticker
              /\ \A i \in 1..Len(main.tickers) :
                    (Decides(i) /\ main.tickers[i] = main.data[k].ticker
                        /\ (Unknown(main.up[i].info["marketCap"])
                              \/ main.up[i].info["marketCap"] = Num(0)))
                      => main.rows[k].MarketCap = NA

\* C6: a call whose (tickers, period) key equals that of an entry stored
\* less than the TTL ago returns the result last computed for that key and
\* calls nothing upstream; no other call is served from the cache.
C6_CacheHit ==
    [][ nruns' = nruns + 1 =>
          LET key == <<main'.tickers, main'.period>>
              fresh == key \in DOMAIN cache /\ now - cache[key].stored < TTL
          IN  /\ fresh => /\ main'.hit
                          /\ main'.data = computed[key]
                          /\ main'.attempts = <<>>
                          /\ cache' = cache
              /\ main'.hit => fresh
              /\ ~fresh => main'.attempts = main'.tickers ]_vars

C6_Witness ==
    /\ main.hit /\ main.tickers = <<AAPL, MSFT>> /\ main.period = "5d"
    /\ <<<<MSFT, AAPL>>, "5d">> \notin DOMAIN cache

C6_WitnessOtherKey ==
    /\ main.invoked /\ ~main.hit /\ main.tickers = <<MSFT, AAPL>>
    /\ <<<<AAPL, MSFT>>, "5d">> \in DOMAIN cache /\ now = 0

Occurrences(seq, x) == Cardinality({i \in 1..Len(seq) : seq[i] = x})

\* C10: once the entry of the run's key is older than the TTL the run
\* executes the batch again, every ticker attempted once, and overwrites the
\* entry; a run is served from the cache only while the entry is younger
\* than the TTL, and then it is; no ticker is attempted twice in a run.
C10_Expiry ==
    [][ (pc = "main" /\ pc' = "idle") =>
          LET key == <<watchlist, "5d">>
              known == key \in DOMAIN cache
          IN  /\ (known /\ now - cache[key].stored > TTL) =>
                    /\ ~main'.hit
                    /\ main'.attempts = watchlist
                    /\ cache'[key] = [value |-> main'.data, stored |-> now]
              /\ main'.hit =>
                    /\ known /\ now - cache[key].stored < TTL
                    /\ main'.data = cache[key].value
                    /\ main'.attempts = <<>>
              /\ (known /\ now - cache[key].stored < TTL) => main'.hit
              /\ \A t \in Range(watchlist) : Occurrences(main'.attempts, t) <= 1 ]_vars

C10_Witness ==
    /\ pc = "idle" /\ main.invoked /\ ~main.hit /\ nruns = 2
    /\ now = 2 * TTL - 2
    /\ cache[<<watchlist, "5d">>].stored = now

C10_WitnessHitAfter ==
    /\ pc = "idle" /\ main.hit /\ nruns = 3 /\ now = 3 * TTL - 3
    /\ cache[<<watchlist, "5d">>].stored = 2 * TTL - 2

====
